---------------------------- MODULE Spec2Model ----------------------------
(* UVision firmware (src/firmware/uvision_firmware.ino): setup(), loop()   *)
(* and the data-ready interrupt handler, as a state machine.  loop() is    *)
(* modelled statement by statement (pc names the line about to execute),   *)
(* so the handler can interleave between its test of the flag (line 181)   *)
(* and its clearing of the flag (line 184).                                *)
EXTENDS Integers, Sequences, FiniteSets, TLC

-----------------------------------------------------------------------------
(* Bounds of the model.                                                    *)

\* One clock tick is TickMs milliseconds: millis() is read in whole ticks.
TickMs == 250
\* millis() wraps (unsigned long); here after ClockTicks ticks.
ClockTicks == 6
\* The history counters (edges, cycles, reads, pulses) saturate here.
MaxCount == 2
\* The real (unwrapped) time since the last timestamp saturates here.
MaxElapsed == 7

-----------------------------------------------------------------------------
(* Program constants.                                                      *)

UPDATE_INTERVAL_MS == 1000
\* The index is computed in exact fixed point: a scaled channel is held in
\* thousandths and the index in units of 10^-5 (a channel in thousandths
\* times the final 0.01), so 3.0 is 300000 and 8.0 is 800000.
\* SCALE_PW_PER_CM2 = 0.005, in thousandths.
SCALE_PW_PER_CM2 == 5
\* The weight 4.0 of the UVB channel in the index formula.
UVB_WEIGHT == 4
\* The thresholds 3.0 and 8.0 of getWHOGuidance, in units of 10^-5:
\* a channel scaled to thousandths, times the final 0.01.
THRESH_MODERATE == 300000
THRESH_EXTREME == 800000
\* The haptic threshold 8.0 of loop(), same unit.
HAPTIC_THRESHOLD == 800000
\* delay(500) of the motor pulse and delay(1) of the sync pulse.
MOTOR_PULSE_MS == 500
SYN_PULSE_MS == 1
\* Serial.println(uvIndex, 2): two decimals; the index unit is 10^-5.
PRINT_UNIT == 1000

\* The OLED, line 40-41, and the text layout of drawWrappedText, lines 86-87.
SCREEN_WIDTH == 128
SCREEN_HEIGHT == 32
CHAR_WIDTH == 6
LINE_HEIGHT == 10
\* The advisory is drawn from y = 12, line 214.
TEXT_Y == 12

\* Raw channel values the driver may report (getUVA / getUVB).
UVAValues == {100, 12000, 31999, 32000}
UVBValues == {0, 40000}

NoIndex == 0 - 1

\* text[text.length()] reads as '\0'.
NUL == "NUL"

\* Inputs of drawWrappedText taken alone: texts over Alphabet of at most
\* MaxTextLen characters, start columns and draw widths.
MaxTextLen == 5
Alphabet == {"a", " "}
WrapXs == {0, 6}
WrapWidths == {12, 18, 20}

VARIABLES
  pc,               \* line of setup()/loop() about to run; "idle" between loop() calls
  now,              \* millis(), in ticks, wrapping at ClockTicks
  newDataReady,     \* volatile bool newDataReady
  lastUpdateTime,   \* unsigned long lastUpdateTime, in ticks
  attached,         \* attachInterrupt has run
  motor,            \* level of MOTOR_PIN
  syn,              \* level of SYN_PIN
  display,          \* what the OLED shows
  serialLast,       \* last line written to Serial
  uvIndex,          \* local uvIndex of loop(), NoIndex when not computed
  guidance,         \* local guidance of loop()
  sensorUVA,        \* what getUVA() returned, until the display update
  sensorUVB,        \* what getUVB() returned, until the display update
  delayLeft,        \* ticks the current delay() still has to wait
  conversionPending,\* the sensor owes a data-ready edge for a sync pulse
  polled,           \* loop() has returned since the last clock tick
  \* history (observers only; no action's guard reads them)
  edges,            \* runs of the interrupt handler
  cycles,           \* processed cycles (clears of the flag by the loop)
  okReads,          \* successful sensor reads
  pulses,           \* trigger pulses completed on the sync line
  initErrs,         \* initialization failure diagnostics printed
  sinceStart,       \* real ticks since the last timestamp (since boot before it)
  edgesSinceClear,  \* handler runs since the loop last cleared the flag
  cyclesSinceEdge,  \* cycles processed since the handler last ran
  consumed,         \* handler runs the loop's last clear of the flag took up
  isrInWindow,      \* the handler ran between this iteration's test and clear
  pulsed,           \* this iteration completed a trigger pulse
  readResult,       \* this iteration's readAllUV: "none", "ok" or "failed"
  outcome,          \* how the last loop() call ended
  atEntryDisplay,   \* display when the current/last loop() call began
  steps,            \* what the current/last loop() call did, in order
  w                 \* a call of drawWrappedText taken alone: its locals

machine == <<pc, now, newDataReady, lastUpdateTime, attached, motor, syn,
             display, serialLast, uvIndex, guidance, sensorUVA, sensorUVB,
             delayLeft, conversionPending, polled, edges, cycles, okReads,
             pulses, initErrs, sinceStart, edgesSinceClear, cyclesSinceEdge,
             consumed, isrInWindow, pulsed, readResult, outcome,
             atEntryDisplay, steps>>

vars == <<machine, w>>

hw == <<motor, syn, display>>
locals == <<uvIndex, guidance, sensorUVA, sensorUVB>>
clock == <<now, sinceStart, delayLeft>>
flagHist == <<edges, edgesSinceClear, cyclesSinceEdge, consumed, isrInWindow>>
iterHist == <<pulsed, readResult, outcome, atEntryDisplay>>
counts == <<cycles, okReads, pulses, initErrs>>

Inc(n) == IF n < MaxCount THEN n + 1 ELSE n

-----------------------------------------------------------------------------
(* Pure helpers.                                                           *)

\* millis() - lastUpdateTime in unsigned arithmetic, in milliseconds.
Elapsed == ((now - lastUpdateTime + ClockTicks) % ClockTicks) * TickMs

\* delay(ms) waits at least ms: the whole ticks that is sure to take.
DelayTicks(ms) == ms \div TickMs

\* Variant of IndexCalculator: the override of line 199 is missing.
IndexCalculator_UsesUVB(rawUVA, rawUVB) ==
  LET uva == rawUVA * SCALE_PW_PER_CM2
      uvb == rawUVB * SCALE_PW_PER_CM2
  IN  uvb * UVB_WEIGHT + uva

\* Lines 195-201: scale both channels, override UVB by UVA, combine.
IndexCalculator(rawUVA, rawUVB) ==
  LET uva == rawUVA * SCALE_PW_PER_CM2
      uvb0 == rawUVB * SCALE_PW_PER_CM2
      uvb == uva
  IN  uvb * UVB_WEIGHT + uva

\* Variant of getWHOGuidance: the boundary 3.0 falls in the lower band.
getWHOGuidance_BoundaryLow(idx) ==
  IF idx <= THRESH_MODERATE THEN "Low: No protection needed"
  ELSE IF idx < THRESH_EXTREME THEN "Moderate: Use SPF30+, hat, sunglasses"
  ELSE "Extreme: Stay indoors if possible!"

\* Lines 72-80.
getWHOGuidance(idx) ==
  IF idx < THRESH_MODERATE THEN "Low: No protection needed"
  ELSE IF idx < THRESH_EXTREME THEN "Moderate: Use SPF30+, hat, sunglasses"
  ELSE "Extreme: Stay indoors if possible!"

\* print(value, 2): rounded to two decimals, in hundredths.
PrintFloat2(idx) == (idx + PRINT_UNIT \div 2) \div PRINT_UNIT

Blank == [title |-> "", value |-> NoIndex, text |-> "", words |-> <<>>]
Screen(t) == [title |-> t, value |-> NoIndex, text |-> "", words |-> <<>>]

\* The characters of an advisory string, as drawWrappedText reads them.
Chars(g) ==
  CASE g = "Low: No protection needed" ->
       <<"L", "o", "w", ":", " ", "N", "o", " ", "p", "r", "o", "t", "e",
         "c", "t", "i", "o", "n", " ", "n", "e", "e", "d", "e", "d">>
    [] g = "Moderate: Use SPF30+, hat, sunglasses" ->
       <<"M", "o", "d", "e", "r", "a", "t", "e", ":", " ", "U", "s", "e",
         " ", "S", "P", "F", "3", "0", "+", ",", " ", "h", "a", "t", ",",
         " ", "s", "u", "n", "g", "l", "a", "s", "s", "e", "s">>
    [] g = "Extreme: Stay indoors if possible!" ->
       <<"E", "x", "t", "r", "e", "m", "e", ":", " ", "S", "t", "a", "y",
         " ", "i", "n", "d", "o", "o", "r", "s", " ", "i", "f", " ", "p",
         "o", "s", "s", "i", "b", "l", "e", "!">>

-----------------------------------------------------------------------------
(* drawWrappedText, lines 83-107.  Its locals are a record; a drawn word is *)
(* recorded with the cursor it was printed at.                              *)

\* Lines 84-89: the locals before the loop.
WrapStart(text, x, y, maxWidth) ==
  [text |-> text, x |-> x, maxWidth |-> maxWidth, i |-> 0, word |-> <<>>,
   cursorX |-> x, cursorY |-> y, drawn |-> <<>>]

\* Line 91: the loop runs for i = 0 .. text.length().
WrapDone(st) == st.i > Len(st.text)

\* Line 92: char c = text[i];
CharAt(text, i) == IF i < Len(text) THEN text[i + 1] ELSE NUL

\* Variant of WrapStep: the test of line 95 is missing, no word ever wraps.
WrapStep_NoWrap(st) ==
  LET c == CharAt(st.text, st.i)
      wordWidth == Len(st.word) * CHAR_WIDTH
  IN  IF c = " " \/ c = NUL
        THEN [st EXCEPT !.cursorX = @ + wordWidth + CHAR_WIDTH,
                        !.drawn = Append(@, [x |-> st.cursorX,
                                             y |-> st.cursorY,
                                             word |-> st.word]),
                        !.word = <<>>,
                        !.i = @ + 1]
        ELSE [st EXCEPT !.word = Append(@, c), !.i = @ + 1]

\* Lines 92-105: one iteration of the loop.
WrapStep(st) ==
  LET c == CharAt(st.text, st.i)
      wordWidth == Len(st.word) * CHAR_WIDTH
      wraps == st.cursorX + wordWidth >= st.maxWidth
      cx == IF wraps THEN st.x ELSE st.cursorX
      cy == IF wraps THEN st.cursorY + LINE_HEIGHT ELSE st.cursorY
  IN  IF c = " " \/ c = NUL
        THEN [st EXCEPT !.cursorX = cx + wordWidth + CHAR_WIDTH,
                        !.cursorY = cy,
                        !.drawn = Append(@, [x |-> cx, y |-> cy,
                                             word |-> st.word]),
                        !.word = <<>>,
                        !.i = @ + 1]
        ELSE [st EXCEPT !.word = Append(@, c), !.i = @ + 1]

\* Lines 91-106: the loop run to its end.  Each iteration's result is bound
\* as a value before the next iteration reads it.
RECURSIVE WrapRun(_)
WrapRun(st) ==
  IF WrapDone(st)
    THEN st
    ELSE CHOOSE r \in {WrapRun(next) : next \in {WrapStep(st)}} : TRUE

\* The words drawWrappedText prints, each with its cursor.
drawWrappedText(text, x, y, maxWidth) ==
  WrapRun(WrapStart(text, x, y, maxWidth)).drawn

\* What the panel holds of the words drawn: where each one starts and how
\* many character cells it takes.
Placed(ds) ==
  [k \in 1..Len(ds) |->
     [x |-> ds[k].x, y |-> ds[k].y, len |-> Len(ds[k].word)]]

\* No call of drawWrappedText is being followed.
NoWrap == WrapStart(<<>>, 0, 0, 0)


-----------------------------------------------------------------------------
MachineInit ==
  /\ pc = "S114"
  /\ now = 0
  /\ newDataReady = FALSE
  /\ lastUpdateTime = 0
  /\ attached = FALSE
  /\ motor = "LOW"
  /\ syn = "LOW"
  /\ display = Blank
  /\ serialLast = ""
  /\ uvIndex = NoIndex
  /\ guidance = ""
  /\ sensorUVA = NoIndex
  /\ sensorUVB = NoIndex
  /\ delayLeft = 0
  /\ conversionPending = FALSE
  /\ polled = FALSE
  /\ edges = 0
  /\ cycles = 0
  /\ okReads = 0
  /\ pulses = 0
  /\ initErrs = 0
  /\ sinceStart = 0
  /\ edgesSinceClear = 0
  /\ cyclesSinceEdge = 0
  /\ consumed = 0
  /\ isrInWindow = FALSE
  /\ pulsed = FALSE
  /\ readResult = "none"
  /\ outcome = "none"
  /\ atEntryDisplay = Blank
  /\ steps = <<>>

Init ==
  /\ MachineInit
  /\ w = NoWrap

-----------------------------------------------------------------------------
(* The clock and the interrupt handler.                                    *)

Tick ==
  /\ now' = (now + 1) % ClockTicks
  /\ sinceStart' = IF sinceStart < MaxElapsed THEN sinceStart + 1 ELSE sinceStart
  /\ delayLeft' = IF delayLeft > 0 THEN delayLeft - 1 ELSE 0
  /\ polled' = FALSE
  /\ UNCHANGED <<w, pc, newDataReady, lastUpdateTime, attached, hw, serialLast,
                 locals, conversionPending, flagHist, iterHist, counts, steps>>

\* Variant of dataReadyInterrupt: the handler toggles the flag.
dataReadyInterrupt_Toggles ==
  /\ attached
  /\ newDataReady' = ~newDataReady
  /\ edges' = Inc(edges)
  /\ edgesSinceClear' = Inc(edgesSinceClear)
  /\ cyclesSinceEdge' = 0
  /\ isrInWindow' = (isrInWindow \/ pc \in {"L182", "L184"})
  /\ UNCHANGED <<w, polled, pc, lastUpdateTime, attached, hw, serialLast,
                 locals, clock, consumed, iterHist, counts, steps>>

\* Lines 63-65.
dataReadyInterrupt ==
  /\ attached
  /\ newDataReady' = TRUE
  /\ edges' = Inc(edges)
  /\ edgesSinceClear' = Inc(edgesSinceClear)
  /\ cyclesSinceEdge' = 0
  /\ isrInWindow' = (isrInWindow \/ pc \in {"L182", "L184"})
  /\ UNCHANGED <<w, polled, pc, lastUpdateTime, attached, hw, serialLast,
                 locals, clock, consumed, iterHist, counts, steps>>

\* The sensor's data-ready edge for the conversion a sync pulse requested.
SensorEdge ==
  /\ conversionPending
  /\ conversionPending' = FALSE
  /\ dataReadyInterrupt

\* Any other rising edge on INT_PIN.
SpuriousEdge ==
  /\ UNCHANGED conversionPending
  /\ dataReadyInterrupt


-----------------------------------------------------------------------------
(* setup(), lines 113-174.                                                 *)

\* Lines 114-129: serial, I2C, motor pin driven low.
SetupStart ==
  /\ pc = "S114"
  /\ serialLast' = "Initializing UVision system..."
  /\ motor' = "LOW"
  /\ pc' = "S132"
  /\ UNCHANGED <<w, polled, newDataReady, lastUpdateTime, attached, syn,
                 display, locals, clock, conversionPending, flagHist, iterHist,
                 counts, steps>>

\* Serial.println(msg); while (true);
InitFailure(msg) ==
  /\ serialLast' = msg
  /\ initErrs' = Inc(initErrs)
  /\ pc' = "halt"
  /\ UNCHANGED <<w, polled, newDataReady, lastUpdateTime, attached, hw, locals,
                 clock, conversionPending, flagHist, iterHist, cycles, okReads,
                 pulses, steps>>

\* Lines 132-135: display.begin fails.
SetupDisplayFail ==
  /\ pc = "S132"
  /\ InitFailure("ERROR: OLED not detected.")

\* Lines 132-148: display.begin succeeds; splash; sync line high; handler attached.
SetupDisplayOk ==
  /\ pc = "S132"
  /\ display' = Screen("Initializing...")
  /\ syn' = "HIGH"
  /\ attached' = TRUE
  /\ pc' = "S151"
  /\ UNCHANGED <<w, polled, newDataReady, lastUpdateTime, motor, serialLast,
                 locals, clock, conversionPending, flagHist, iterHist, counts,
                 steps>>

\* Lines 151-154: myUVSensor.begin fails.
SetupSensorFail ==
  /\ pc = "S151"
  /\ InitFailure("ERROR: UV sensor initialization failed.")

SetupSensorOk ==
  /\ pc = "S151"
  /\ pc' = "S156"
  /\ UNCHANGED <<w, polled, newDataReady, lastUpdateTime, attached, hw,
                 serialLast, locals, clock, conversionPending, flagHist,
                 iterHist, counts, steps>>

\* Lines 156-159: prepareMeasurement fails.
SetupModeFail ==
  /\ pc = "S156"
  /\ InitFailure("ERROR: UV sensor measurement setup failed.")

\* Lines 156-161.
SetupModeOk ==
  /\ pc = "S156"
  /\ pc' = "S164"
  /\ UNCHANGED <<w, polled, newDataReady, lastUpdateTime, attached, hw,
                 serialLast, locals, clock, conversionPending, flagHist,
                 iterHist, counts, steps>>

\* Lines 164-165: sync line low, delay(1) begins.
SetupSynLow ==
  /\ pc = "S164"
  /\ syn' = "LOW"
  /\ delayLeft' = DelayTicks(SYN_PULSE_MS)
  /\ pc' = "S166"
  /\ UNCHANGED <<w, polled, now, sinceStart, newDataReady, lastUpdateTime,
                 attached, motor, display, serialLast, locals,
                 conversionPending, flagHist, iterHist, counts, steps>>

\* Line 166: sync line high again: the priming trigger pulse is complete.
SetupSynHigh ==
  /\ pc = "S166"
  /\ delayLeft = 0
  /\ syn' = "HIGH"
  /\ pulses' = Inc(pulses)
  /\ conversionPending' = TRUE
  /\ pc' = "S168"
  /\ UNCHANGED <<w, polled, newDataReady, lastUpdateTime, attached, motor,
                 display, serialLast, locals, clock, flagHist, iterHist,
                 cycles, okReads, initErrs, steps>>

\* Lines 168-174: "Sensor Ready!", setup returns.
SetupDone ==
  /\ pc = "S168"
  /\ display' = Screen("Sensor Ready!")
  /\ serialLast' = "System ready."
  /\ pc' = "idle"
  /\ UNCHANGED <<w, polled, newDataReady, lastUpdateTime, attached, motor, syn,
                 locals, clock, conversionPending, flagHist, iterHist, counts,
                 steps>>

\* Variant of HaltSpin: setup() returns after the diagnostic instead of spinning.
HaltSpin_Returns ==
  /\ pc = "halt"
  /\ pc' = "idle"
  /\ UNCHANGED <<w, now, newDataReady, lastUpdateTime, attached, hw,
                 serialLast, locals, delayLeft, conversionPending, polled,
                 sinceStart, flagHist, iterHist, counts, steps>>

\* while (true); after an initialization failure.
HaltSpin ==
  /\ pc = "halt"
  /\ UNCHANGED vars

Setup ==
  \/ SetupStart
  \/ SetupDisplayFail
  \/ SetupDisplayOk
  \/ SetupSensorFail
  \/ SetupSensorOk
  \/ SetupModeFail
  \/ SetupModeOk
  \/ SetupSynLow
  \/ SetupSynHigh
  \/ SetupDone
  \/ HaltSpin

-----------------------------------------------------------------------------
(* loop(), lines 180-229.                                                  *)

\* The runtime calls loop() again.
LoopEntry ==
  /\ pc = "idle"
  /\ pc' = "L181"
  /\ isrInWindow' = FALSE
  /\ pulsed' = FALSE
  /\ readResult' = "none"
  /\ outcome' = "running"
  /\ atEntryDisplay' = display
  /\ steps' = <<>>
  /\ UNCHANGED <<w, polled, newDataReady, lastUpdateTime, attached, hw,
                 serialLast, locals, clock, conversionPending, edges,
                 edgesSinceClear, cyclesSinceEdge, consumed, counts>>

\* loop() returns with result r; its locals die.
Return(r) ==
  /\ pc' = "idle"
  /\ outcome' = r
  /\ uvIndex' = NoIndex
  /\ guidance' = ""
  /\ sensorUVA' = NoIndex
  /\ sensorUVB' = NoIndex
  /\ polled' = TRUE

\* Variant of TestFlag: an iteration without the flag updates the timestamp.
TestFlag_Stamps ==
  /\ pc = "L181"
  /\ IF ~newDataReady
       THEN lastUpdateTime' = now /\ Return("noflag")
       ELSE /\ pc' = "L182"
            /\ UNCHANGED <<lastUpdateTime, outcome, locals, polled>>
  /\ UNCHANGED <<w, newDataReady, attached, hw, serialLast,
                 clock, conversionPending, flagHist, pulsed, readResult,
                 atEntryDisplay, counts, steps>>

\* Variant of TestFlag: the test at line 181 also clears the flag.
TestFlag_ReadAndClear ==
  /\ pc = "L181"
  /\ IF ~newDataReady
       THEN Return("noflag") /\ UNCHANGED newDataReady
       ELSE /\ newDataReady' = FALSE
            /\ pc' = "L182"
            /\ UNCHANGED <<outcome, locals, polled>>
  /\ UNCHANGED <<w, lastUpdateTime, attached, hw, serialLast,
                 clock, conversionPending, flagHist, pulsed, readResult,
                 atEntryDisplay, counts, steps>>

\* Line 181: if (!newDataReady) return;
TestFlag ==
  /\ pc = "L181"
  /\ IF ~newDataReady
       THEN Return("noflag")
       ELSE pc' = "L182" /\ UNCHANGED <<outcome, locals, polled>>
  /\ UNCHANGED <<w, newDataReady, lastUpdateTime, attached, hw, serialLast,
                 clock, conversionPending, flagHist, pulsed, readResult,
                 atEntryDisplay, counts, steps>>

\* Variant of TestInterval: a throttled iteration consumes the flag.
TestInterval_ConsumesFlag ==
  /\ pc = "L182"
  /\ IF Elapsed < UPDATE_INTERVAL_MS
       THEN newDataReady' = FALSE /\ Return("throttled")
       ELSE pc' = "L184" /\ UNCHANGED <<newDataReady, outcome, locals, polled>>
  /\ UNCHANGED <<w, lastUpdateTime, attached, hw, serialLast, clock,
                 conversionPending, flagHist, pulsed, readResult,
                 atEntryDisplay, counts, steps>>

\* Variant of TestInterval: the flag is cleared before the interval is tested.
TestInterval_ClearsFirst ==
  /\ pc = "L182"
  /\ newDataReady' = FALSE
  /\ IF Elapsed < UPDATE_INTERVAL_MS
       THEN Return("throttled")
       ELSE pc' = "L184" /\ UNCHANGED <<outcome, locals, polled>>
  /\ UNCHANGED <<w, lastUpdateTime, attached, hw, serialLast, clock,
                 conversionPending, flagHist, pulsed, readResult,
                 atEntryDisplay, counts, steps>>

\* Variant of TestInterval: a throttled iteration updates the timestamp.
TestInterval_Restamps ==
  /\ pc = "L182"
  /\ IF Elapsed < UPDATE_INTERVAL_MS
       THEN lastUpdateTime' = now /\ Return("throttled")
       ELSE /\ pc' = "L184"
            /\ UNCHANGED <<lastUpdateTime, outcome, locals, polled>>
  /\ UNCHANGED <<w, newDataReady, attached, hw, serialLast, clock,
                 conversionPending, flagHist, pulsed, readResult,
                 atEntryDisplay, counts, steps>>

\* Line 182: if (millis() - lastUpdateTime < UPDATE_INTERVAL_MS) return;
TestInterval ==
  /\ pc = "L182"
  /\ IF Elapsed < UPDATE_INTERVAL_MS
       THEN Return("throttled")
       ELSE pc' = "L184" /\ UNCHANGED <<outcome, locals, polled>>
  /\ UNCHANGED <<w, newDataReady, lastUpdateTime, attached, hw, serialLast,
                 clock, conversionPending, flagHist, pulsed, readResult,
                 atEntryDisplay, counts, steps>>

\* Variant of ClearFlag: the assignment newDataReady = false is missing.
ClearFlag_KeepsFlag ==
  /\ pc = "L184"
  /\ cycles' = Inc(cycles)
  /\ consumed' = edgesSinceClear
  /\ edgesSinceClear' = 0
  /\ cyclesSinceEdge' = Inc(cyclesSinceEdge)
  /\ pc' = "L185"
  /\ UNCHANGED <<w, polled, newDataReady, lastUpdateTime, attached, hw,
                 serialLast, locals, clock, conversionPending, edges,
                 isrInWindow, iterHist, okReads, pulses, initErrs, steps>>

\* Line 184: newDataReady = false;  a cycle is now being processed.
ClearFlag ==
  /\ pc = "L184"
  /\ newDataReady' = FALSE
  /\ cycles' = Inc(cycles)
  /\ consumed' = edgesSinceClear
  /\ edgesSinceClear' = 0
  /\ cyclesSinceEdge' = Inc(cyclesSinceEdge)
  /\ pc' = "L185"
  /\ steps' = Append(steps, "clear")
  /\ UNCHANGED <<w, polled, lastUpdateTime, attached, hw, serialLast, locals,
                 clock, conversionPending, edges, isrInWindow, iterHist,
                 okReads, pulses, initErrs>>

\* Variant of Timestamp: lastUpdateTime is not updated.
Timestamp_Stale ==
  /\ pc = "L185"
  /\ sinceStart' = 0
  /\ pc' = "L187"
  /\ UNCHANGED <<w, polled, now, delayLeft, lastUpdateTime, newDataReady,
                 attached, hw, serialLast, locals, conversionPending, flagHist,
                 iterHist, counts, steps>>

\* Line 185: lastUpdateTime = millis();
Timestamp ==
  /\ pc = "L185"
  /\ lastUpdateTime' = now
  /\ sinceStart' = 0
  /\ pc' = "L187"
  /\ steps' = Append(steps, "stamp")
  /\ UNCHANGED <<w, polled, now, delayLeft, newDataReady, attached, hw,
                 serialLast, locals, conversionPending, flagHist, iterHist,
                 counts>>

\* Variant of ReadFail: the return is missing; the cycle goes on with the
\* values the driver still holds.
ReadFail_FallsThrough ==
  /\ pc = "L187"
  /\ readResult' = "failed"
  /\ serialLast' = "ERROR: Failed to read UV data."
  /\ \E a \in UVAValues, b \in UVBValues :
       /\ sensorUVA' = a
       /\ sensorUVB' = b
       /\ uvIndex' = IndexCalculator(a, b)
       /\ guidance' = getWHOGuidance(uvIndex')
  /\ pc' = "L210"
  /\ steps' = steps \o <<"read", "classify">>
  /\ UNCHANGED <<w, polled, newDataReady, lastUpdateTime, attached, hw, clock,
                 conversionPending, flagHist, pulsed, outcome, atEntryDisplay,
                 counts>>

\* Variant of ReadFail: a failed read still issues the trigger pulse.
ReadFail_Retriggers ==
  /\ pc = "L187"
  /\ readResult' = "failed"
  /\ serialLast' = "ERROR: Failed to read UV data."
  /\ pc' = "L226"
  /\ steps' = Append(steps, "read")
  /\ UNCHANGED <<w, polled, newDataReady, lastUpdateTime, attached, hw, locals,
                 clock, conversionPending, flagHist, pulsed, outcome,
                 atEntryDisplay, counts>>

\* Lines 187-190: readAllUV fails.
ReadFail ==
  /\ pc = "L187"
  /\ readResult' = "failed"
  /\ serialLast' = "ERROR: Failed to read UV data."
  /\ Return("failed")
  /\ steps' = Append(steps, "read")
  /\ UNCHANGED <<w, newDataReady, lastUpdateTime, attached, hw, clock,
                 conversionPending, flagHist, pulsed, atEntryDisplay, counts>>

\* Lines 187-207: readAllUV succeeds; index and guidance computed and logged.
ReadOk ==
  /\ pc = "L187"
  /\ \E a \in UVAValues, b \in UVBValues :
       /\ sensorUVA' = a
       /\ sensorUVB' = b
       /\ uvIndex' = IndexCalculator(a, b)
       /\ guidance' = getWHOGuidance(uvIndex')
  /\ readResult' = "ok"
  /\ okReads' = Inc(okReads)
  /\ serialLast' = "Guidance: "
  /\ pc' = "L210"
  /\ steps' = steps \o <<"read", "classify">>
  /\ UNCHANGED <<w, polled, newDataReady, lastUpdateTime, attached, hw, clock,
                 conversionPending, flagHist, pulsed, outcome, atEntryDisplay,
                 cycles, pulses, initErrs>>

\* Lines 210-215: the OLED shows the index and the advisory.
UpdateDisplay ==
  /\ pc = "L210"
  /\ display' = [title |-> "UV Index: ", value |-> PrintFloat2(uvIndex),
                 text |-> guidance,
                 words |-> Placed(drawWrappedText(Chars(guidance), 0,
                                                  TEXT_Y, SCREEN_WIDTH))]
  /\ sensorUVA' = NoIndex
  /\ sensorUVB' = NoIndex
  /\ pc' = "L218"
  /\ steps' = Append(steps, "display")
  /\ UNCHANGED <<w, polled, newDataReady, lastUpdateTime, attached, motor, syn,
                 serialLast, uvIndex, guidance, clock, conversionPending,
                 flagHist, iterHist, counts>>

\* Variant of HapticCheck: the haptic test uses the Moderate threshold.
HapticCheck_Moderate ==
  /\ pc = "L218"
  /\ IF uvIndex >= THRESH_MODERATE
       THEN /\ serialLast' = "High UV detected. Activating vibration alert."
            /\ pc' = "L220"
       ELSE /\ pc' = "L226"
            /\ UNCHANGED serialLast
  /\ UNCHANGED <<w, polled, newDataReady, lastUpdateTime, attached, hw, locals,
                 clock, conversionPending, flagHist, iterHist, counts, steps>>

\* Line 218: if (uvIndex >= 8.0)
HapticCheck ==
  /\ pc = "L218"
  /\ IF uvIndex >= HAPTIC_THRESHOLD
       THEN /\ serialLast' = "High UV detected. Activating vibration alert."
            /\ pc' = "L220"
       ELSE /\ pc' = "L226"
            /\ UNCHANGED serialLast
  /\ UNCHANGED <<w, polled, newDataReady, lastUpdateTime, attached, hw, locals,
                 clock, conversionPending, flagHist, iterHist, counts, steps>>

\* Lines 220-221: motor high, delay(500) begins.
MotorHigh ==
  /\ pc = "L220"
  /\ motor' = "HIGH"
  /\ delayLeft' = DelayTicks(MOTOR_PULSE_MS)
  /\ pc' = "L222"
  /\ steps' = Append(steps, "motorHigh")
  /\ UNCHANGED <<w, polled, now, sinceStart, newDataReady, lastUpdateTime,
                 attached, syn, display, serialLast, locals, conversionPending,
                 flagHist, iterHist, counts>>

\* Variant of MotorLow: the motor is left running.
MotorLow_StaysHigh ==
  /\ pc = "L222"
  /\ delayLeft = 0
  /\ pc' = "L226"
  /\ UNCHANGED <<w, polled, newDataReady, lastUpdateTime, attached, hw,
                 serialLast, locals, clock, conversionPending, flagHist,
                 iterHist, counts, steps>>

\* Line 222: the delay is over, motor low.
MotorLow ==
  /\ pc = "L222"
  /\ delayLeft = 0
  /\ motor' = "LOW"
  /\ pc' = "L226"
  /\ steps' = Append(steps, "motorLow")
  /\ UNCHANGED <<w, polled, newDataReady, lastUpdateTime, attached, syn,
                 display, serialLast, locals, clock, conversionPending,
                 flagHist, iterHist, counts>>

\* Lines 226-227: sync line low, delay(1) begins.
SynLow ==
  /\ pc = "L226"
  /\ syn' = "LOW"
  /\ delayLeft' = DelayTicks(SYN_PULSE_MS)
  /\ pc' = "L228"
  /\ steps' = Append(steps, "synLow")
  /\ UNCHANGED <<w, polled, now, sinceStart, newDataReady, lastUpdateTime,
                 attached, motor, display, serialLast, locals,
                 conversionPending, flagHist, iterHist, counts>>

\* Line 228: sync line high again: the trigger pulse is complete; loop() returns.
SynHigh ==
  /\ pc = "L228"
  /\ delayLeft = 0
  /\ syn' = "HIGH"
  /\ pulses' = Inc(pulses)
  /\ pulsed' = TRUE
  /\ conversionPending' = TRUE
  /\ Return("ok")
  /\ steps' = Append(steps, "synHigh")
  /\ UNCHANGED <<w, newDataReady, lastUpdateTime, attached, motor, display,
                 serialLast, clock, flagHist, readResult, atEntryDisplay,
                 cycles, okReads, initErrs>>

Loop ==
  \/ LoopEntry
  \/ TestFlag
  \/ TestInterval
  \/ ClearFlag
  \/ Timestamp
  \/ ReadFail
  \/ ReadOk
  \/ UpdateDisplay
  \/ HapticCheck
  \/ MotorHigh
  \/ MotorLow
  \/ SynLow
  \/ SynHigh

-----------------------------------------------------------------------------
(* Specifications.                                                         *)

\* Edges may arrive on INT_PIN at any time and at any rate.
Next ==
  \/ Setup
  \/ Loop
  \/ Tick
  \/ SensorEdge
  \/ SpuriousEdge

Spec == Init /\ [][Next]_vars

\* The sensor raises exactly one data-ready edge per trigger pulse, loop() is
\* called again as soon as it returns, and straight-line code takes no clock
\* tick: time passes between loop() calls (at least one call per tick) and
\* inside delay().
InstantPcs == {"L181", "L182", "L184", "L185", "L187", "L210", "L218", "L220",
               "L226"}

LiveTick ==
  /\ pc \notin InstantPcs
  /\ pc = "idle" => polled
  /\ Tick

LiveNext ==
  \/ Setup
  \/ Loop
  \/ LiveTick
  \/ SensorEdge

\* drawWrappedText taken alone, on every text over Alphabet of at most
\* MaxTextLen characters: one step per iteration of its loop.
Texts == UNION {[1..n -> Alphabet] : n \in 0..MaxTextLen}

WrapInit ==
  /\ MachineInit
  /\ w \in {WrapStart(t, x, TEXT_Y, mw) :
              t \in Texts, x \in WrapXs, mw \in WrapWidths}

\* Lines 103-104: the character is added to the word.
WrapChar ==
  /\ ~WrapDone(w)
  /\ CharAt(w.text, w.i) \notin {" ", NUL}
  /\ w' = WrapStep(w)
  /\ UNCHANGED machine

\* Lines 93-102: a space or the end of the text: the word is drawn.
WrapWord ==
  /\ ~WrapDone(w)
  /\ CharAt(w.text, w.i) \in {" ", NUL}
  /\ w' = WrapStep(w)
  /\ UNCHANGED machine

WrapNext ==
  \/ WrapChar
  \/ WrapWord

WrapSpec == WrapInit /\ [][WrapNext]_vars

LiveSpec ==
  /\ Init
  /\ [][LiveNext]_vars
  /\ WF_vars(Setup)
  /\ WF_vars(Loop)
  /\ WF_vars(SensorEdge)
  /\ SF_vars(LiveTick)

-----------------------------------------------------------------------------
(* Claims.                                                                 *)

\* C1: a processed cycle whose sensor read fails issues a trigger pulse
\* before loop() returns to idle polling.
C1_FailedCycleRetriggers ==
  (pc = "idle" /\ readResult = "failed") => pulsed

\* C2: with one data-ready edge per trigger pulse, an advancing clock and
\* loop() called again and again, every processed cycle (sensor read
\* attempt), failed ones included, is eventually followed by another one.
C2_AcquisitionNeverStalls ==
  [](pc = "L187" => <>(pc # "L187" /\ <>(pc = "L187")))

\* C3 (as stated): an iteration that finds the flag set before the interval
\* has elapsed clears the flag when it returns.
C3_ThrottledFlagConsumed ==
  [][(pc = "L182" /\ pc' = "idle") => ~newDataReady']_vars

\* C3 (amended): after an iteration that found the flag set before the
\* interval had elapsed, the flag is still set (the edge stays pending), the
\* sensor was not read and nothing was output.
C3_ThrottledFlagKept ==
  (pc = "idle" /\ outcome = "throttled") =>
    /\ newDataReady
    /\ readResult = "none"
    /\ ~pulsed
    /\ display = atEntryDisplay

C3_Witness ==
  /\ pc = "idle"
  /\ outcome = "throttled"
  /\ newDataReady
  /\ cycles >= 1

\* C4: the flag holds at most one pending measurement: however many times
\* the handler ran since the loop last cleared the flag, the flag is just set;
\* no second cycle is processed without a new edge, so a burst of edges
\* yields exactly one cycle; processed cycles never outnumber edges.
C4_AtMostOnePending ==
  /\ cycles <= edges
  /\ cyclesSinceEdge <= 1
  /\ newDataReady <=> (edgesSinceClear > 0)
  /\ (cycles > 0 /\ edgesSinceClear = 0) => cyclesSinceEdge = 1

C4_Witness ==
  /\ pc = "idle"
  /\ cycles >= 2
  /\ consumed >= 2
  /\ edgesSinceClear = 0
  /\ cyclesSinceEdge = 1
  /\ ~newDataReady

\* C5 (as stated): the handler never runs between the loop's test of the
\* flag (line 181) and its clearing of the flag (line 184).
C5_TestAndClearAtomic ==
  ~isrInWindow

\* C5 (amended): the handler can run between the test and the clear; when it
\* does, the flag is either still set or was cleared by that same iteration,
\* which goes on to attempt a sensor read.
C5_InterleavedEdgeServed ==
  isrInWindow =>
    \/ newDataReady
    \/ pc \in {"L185", "L187"}
    \/ readResult # "none"

C5_Witness ==
  /\ isrInWindow
  /\ ~newDataReady
  /\ readResult # "none"
  /\ pc = "idle"

\* C6: the motor output is high only inside a successful cycle whose index
\* is >= 8.0 (during the pulse's delay), and it is low whenever loop() has
\* returned and in the halted state.
C6_MotorOnlyWhenExtreme ==
  /\ motor = "HIGH" =>
       /\ pc = "L222"
       /\ readResult = "ok"
       /\ uvIndex >= HAPTIC_THRESHOLD
       /\ guidance = "Extreme: Stay indoors if possible!"
  /\ pc \in {"idle", "halt", "L181", "L182", "L184", "L185", "L187"} =>
       motor = "LOW"
  /\ readResult = "failed" => motor = "LOW"
  /\ uvIndex # NoIndex /\ uvIndex < HAPTIC_THRESHOLD => motor = "LOW"

C6_Witness ==
  /\ motor = "HIGH"
  /\ delayLeft = 0
  /\ cycles >= 2

\* C7: the timestamps of two consecutive processed cycles are at least
\* UPDATE_INTERVAL_MS apart in real time, whatever the rate of the edges.
C7_CyclesSpaced ==
  (pc = "L185" /\ cycles >= 2) => sinceStart * TickMs >= UPDATE_INTERVAL_MS

C7_Witness ==
  /\ pc = "L185"
  /\ cycles >= 2
  /\ consumed >= 2
  /\ sinceStart * TickMs < UPDATE_INTERVAL_MS + TickMs

\* C8: an initialization failure halts for good: one diagnostic, no cycle
\* ever processed, no trigger pulse, motor low, and no way out of the halt.
C8_InitFailureHalts ==
  /\ [](pc = "halt" =>
          /\ initErrs = 1
          /\ serialLast \in {"ERROR: OLED not detected.",
                             "ERROR: UV sensor initialization failed.",
                             "ERROR: UV sensor measurement setup failed."}
          /\ cycles = 0
          /\ okReads = 0
          /\ motor = "LOW"
          /\ outcome = "none")
  /\ [][pc = "halt" => pc' = "halt"]_vars

C8_Witness ==
  /\ pc = "halt"
  /\ serialLast = "ERROR: UV sensor measurement setup failed."
  /\ newDataReady
  /\ now > 0

\* C9: in a cycle whose sensor read fails no index is computed, and the
\* display, the motor output and the sync line are as they were when the
\* iteration began (motor low, no trigger pulse).
C9_FailedCycleNoOutput ==
  readResult = "failed" =>
    /\ uvIndex = NoIndex
    /\ guidance = ""
    /\ display = atEntryDisplay
    /\ motor = "LOW"
    /\ syn = "HIGH"
    /\ ~pulsed
    /\ pc = "idle"
    /\ cycles >= 1

C9_Witness ==
  /\ pc = "idle"
  /\ readResult = "failed"
  /\ display.title = "UV Index: "
  /\ ~newDataReady

\* C10: whenever the loop is idle between iterations, the trigger pulses
\* issued number 1 (setup's priming pulse) plus the successful reads
\* (counted below the counters' saturation).
C10_PulsesMatchReads ==
  (pc = "idle" /\ okReads < MaxCount) => pulses = 1 + okReads

C10_Witness ==
  /\ pc = "idle"
  /\ readResult = "failed"
  /\ okReads = 1
  /\ pulses = 2

\* The index values the sampled channel values produce.
IndexSamples == {IndexCalculator(a, b) : a \in UVAValues, b \in UVBValues}

\* The rank of an advisory's band: Low 0, Moderate 1, Extreme 2.
Band(g) ==
  CASE g = "Low: No protection needed" -> 0
    [] g = "Moderate: Use SPF30+, hat, sunglasses" -> 1
    [] g = "Extreme: Stay indoors if possible!" -> 2

\* C11: the classifier returns the Low advisory iff index < 3.0, the
\* Moderate advisory iff 3.0 <= index < 8.0 and the Extreme advisory iff
\* index >= 8.0 (3.0 and 8.0 belong to the upper band), and the band never
\* decreases when the index grows.
C11_ClassifierBands ==
  uvIndex # NoIndex =>
    /\ guidance \in {"Low: No protection needed",
                     "Moderate: Use SPF30+, hat, sunglasses",
                     "Extreme: Stay indoors if possible!"}
    /\ (guidance = "Low: No protection needed") <=> (uvIndex < 300000)
    /\ (guidance = "Moderate: Use SPF30+, hat, sunglasses")
         <=> (300000 <= uvIndex /\ uvIndex < 800000)
    /\ (guidance = "Extreme: Stay indoors if possible!") <=> (uvIndex >= 800000)
    /\ \A i \in IndexSamples :
         /\ i <= uvIndex => Band(getWHOGuidance(i)) <= Band(guidance)
         /\ i >= uvIndex => Band(getWHOGuidance(i)) >= Band(guidance)

C11_Witness ==
  /\ uvIndex = 300000
  /\ guidance = "Moderate: Use SPF30+, hat, sunglasses"
  /\ 799975 \in IndexSamples
  /\ getWHOGuidance(799975) = "Moderate: Use SPF30+, hat, sunglasses"

-----------------------------------------------------------------------------
\* C12: the raw UVB channel has no influence on a cycle: in a successful
\* cycle the index is the one computed from the raw UVA value with UVB
\* replaced by UVA, whatever UVB was read, and the advisory is that of this
\* index; the display and the decision to pulse the motor are functions of
\* the index and the advisory alone.
C12_UVBIgnored ==
  /\ sensorUVA # NoIndex =>
       LET idx == IndexCalculator(sensorUVA, sensorUVA)
       IN  /\ pc = "L210"
           /\ sensorUVB \in UVBValues
           /\ uvIndex = idx
           /\ \A b \in UVBValues : IndexCalculator(sensorUVA, b) = idx
           /\ idx = (UVB_WEIGHT + 1) * sensorUVA * SCALE_PW_PER_CM2
           /\ guidance = getWHOGuidance(idx)
  /\ uvIndex # NoIndex =>
       /\ uvIndex \in {IndexCalculator(a, a) : a \in UVAValues}
       /\ guidance = getWHOGuidance(uvIndex)
  /\ pc \in {"L218", "L220", "L222", "L226", "L228"} =>
       /\ display.value = PrintFloat2(uvIndex)
       /\ display.text = getWHOGuidance(uvIndex)
  /\ pc \in {"L220", "L222"} => uvIndex >= HAPTIC_THRESHOLD
  /\ pc \in {"L226", "L228"} =>
       (("motorHigh" \in {steps[k] : k \in 1..Len(steps)})
          <=> uvIndex >= HAPTIC_THRESHOLD)

\* A successful cycle that read a large UVB next to a small UVA and still
\* computed the index 0.025 and the Low advisory.
C12_Witness ==
  /\ pc = "L210"
  /\ sensorUVA = 100
  /\ sensorUVB = 40000
  /\ uvIndex = 2500
  /\ guidance = "Low: No protection needed"
  /\ steps = <<"clear", "stamp", "read", "classify">>

-----------------------------------------------------------------------------
\* C13: the interrupt handler only sets the flag to true: a run of the
\* handler (a step that moves neither the program counter nor the clock)
\* leaves the flag set and changes neither the timestamp, the display, the
\* motor output, the sync line nor anything else of the program; the flag
\* goes from true to false only in the loop's statement of line 184.
C13_HandlerOnlySetsFlag ==
  /\ [][(pc' = pc /\ now' = now) =>
          /\ newDataReady'
          /\ UNCHANGED <<lastUpdateTime, display, motor, syn, serialLast,
                         attached, uvIndex, guidance, delayLeft>>]_vars
  /\ [][(newDataReady /\ ~newDataReady') =>
          (pc = "L184" /\ pc' = "L185")]_vars

\* The handler has run while the motor pulse was on and the flag was still
\* set from an earlier run: flag set, motor still high, cycle still going.
C13_Witness ==
  /\ pc = "L222"
  /\ motor = "HIGH"
  /\ newDataReady
  /\ edgesSinceClear >= 2
  /\ display.title = "UV Index: "

-----------------------------------------------------------------------------
-----------------------------------------------------------------------------
\* C15: a loop iteration clears the flag and updates the timestamp only when
\* it found the flag set and the interval elapsed; an iteration in which
\* either test fails returns at once and is a no-op: its steps leave the
\* flag, the timestamp, the display, the motor output and the sync line
\* unchanged, and it has read nothing and pulsed nothing.
C15_GuardedCycleElseNoOp ==
  /\ [](pc \in {"L184", "L185"} =>
          /\ pc = "L184" => newDataReady
          /\ sinceStart * TickMs >= UPDATE_INTERVAL_MS)
  /\ [][(pc = "L181" /\ pc' # pc) =>
          /\ pc' = (IF newDataReady THEN "L182" ELSE "idle")
          /\ UNCHANGED <<newDataReady, lastUpdateTime, hw>>]_vars
  /\ [][(pc = "L182" /\ pc' # pc) =>
          /\ pc' = (IF Elapsed >= UPDATE_INTERVAL_MS THEN "L184" ELSE "idle")
          /\ UNCHANGED <<newDataReady, lastUpdateTime, hw>>]_vars
  /\ [][(lastUpdateTime' # lastUpdateTime) =>
          (pc = "L185" /\ steps = <<"clear">>)]_vars
  /\ [][(newDataReady /\ ~newDataReady') => (pc = "L184" /\ steps = <<>>)]_vars
  /\ []((pc = "idle" /\ outcome \in {"noflag", "throttled"}) =>
          /\ steps = <<>>
          /\ readResult = "none"
          /\ ~pulsed
          /\ display = atEntryDisplay
          /\ motor = "LOW"
          /\ syn = "HIGH")

\* An iteration has just returned at line 181 (flag not set) although the
\* interval had long elapsed, after an earlier cycle had drawn the display.
C15_Witness ==
  /\ pc = "idle"
  /\ outcome = "noflag"
  /\ ~newDataReady
  /\ Elapsed >= UPDATE_INTERVAL_MS
  /\ display.title = "UV Index: "
  /\ lastUpdateTime # now

-----------------------------------------------------------------------------
\* The steps of a successful cycle, with or without the motor pulse.
CycleSteps(extreme) ==
  <<"clear", "stamp", "read", "classify", "display">>
    \o (IF extreme THEN <<"motorHigh", "motorLow">> ELSE <<>>)
    \o <<"synLow", "synHigh">>

IsPrefix(s, t) == Len(s) <= Len(t) /\ s = SubSeq(t, 1, Len(s))

\* C16: a successful cycle does, in this order: flag cleared, timestamp
\* updated, sensor read, index computed and classified, display updated,
\* motor pulsed and returned low (exactly when the advisory is Extreme), one
\* trigger pulse; every iteration under way has done a prefix of that; the
\* sync line is low inside loop() only after the display update and with the
\* motor low, and the motor is never high at the trigger pulse.
C16_StepsInOrder ==
  /\ IsPrefix(steps, CycleSteps(TRUE)) \/ IsPrefix(steps, CycleSteps(FALSE))
  /\ (pc = "idle" /\ outcome = "ok") =>
       /\ steps =
            CycleSteps(display.text = "Extreme: Stay indoors if possible!")
       /\ pulsed
       /\ display.title = "UV Index: "
  /\ pc \in {"L226", "L228"} =>
       /\ motor = "LOW"
       /\ display.text = guidance
       /\ Len(steps) >= 5
       /\ uvIndex >= HAPTIC_THRESHOLD <=> Len(steps) >= 7
  /\ (syn = "LOW" /\ pc \in InstantPcs \cup {"idle", "L222", "L228"}) =>
       pc = "L228"
  /\ motor = "HIGH" => (pc = "L222" /\ syn = "HIGH")

\* A successful Extreme cycle has just returned: motor pulsed, then one
\* trigger pulse.
C16_Witness ==
  /\ pc = "idle"
  /\ outcome = "ok"
  /\ steps = <<"clear", "stamp", "read", "classify", "display", "motorHigh",
               "motorLow", "synLow", "synHigh">>
  /\ display.text = "Extreme: Stay indoors if possible!"
  /\ motor = "LOW"
  /\ syn = "HIGH"

-----------------------------------------------------------------------------
\* C17: no data-ready edge is lost, wherever the handler runs relative to
\* the loop's test (line 181) and clear (line 184) of the flag: while a run of
\* the handler is not yet taken up by a clear the flag is set; the clear of
\* line 184 takes up exactly the runs before it, and the iteration that
\* cleared goes on, without a return, to attempt the sensor read of line 187.
C17_NoEdgeLost ==
  /\ [](edgesSinceClear > 0 => newDataReady)
  /\ [](pc \in {"L185", "L187"} =>
          /\ consumed > 0
          /\ readResult = "none"
          /\ steps \in {<<"clear">>, <<"clear", "stamp">>})
  /\ [][(pc' = pc /\ now' = now) =>
          (newDataReady' /\ edgesSinceClear' > 0)]_vars
  /\ [][(edgesSinceClear > 0 /\ edgesSinceClear' = 0) =>
          (pc = "L184" /\ pc' = "L185" /\ consumed' = edgesSinceClear)]_vars
  /\ [][(pc = "L185" /\ pc' # pc) => pc' = "L187"]_vars
  /\ [][(pc = "L187" /\ pc' # pc) => readResult' \in {"ok", "failed"}]_vars

\* The handler ran between the test and the clear of an iteration that found
\* the flag already set, and once more after the clear: the clear took up
\* several runs, the read is next, and the flag is set again for the next
\* cycle.
C17_Witness ==
  /\ pc = "L187"
  /\ isrInWindow
  /\ consumed >= 2
  /\ edgesSinceClear = 1
  /\ newDataReady

-----------------------------------------------------------------------------
\* C18: a pending flag is eventually served: with loop() called again and
\* again and the clock advancing, a set flag leads to a processed cycle (the
\* flag cleared at line 184 and the sensor read attempted); an iteration
\* that returns at line 182 leaves the flag set, and an iteration that finds
\* the flag set and the interval elapsed never returns there but goes on to
\* process the cycle.
C18_PendingFlagServed ==
  /\ (newDataReady /\ pc # "halt") ~> (pc = "L187")
  /\ [][(pc = "L181" /\ newDataReady /\ pc' # pc) => pc' = "L182"]_vars
  /\ [][(pc = "L182" /\ Elapsed >= UPDATE_INTERVAL_MS /\ pc' # pc) =>
          pc' = "L184"]_vars
  /\ [][(pc = "L182" /\ pc' = "idle") =>
          (newDataReady' /\ Elapsed < UPDATE_INTERVAL_MS)]_vars
  /\ []((pc = "idle" /\ outcome = "throttled") => newDataReady)

\* An edge the sensor raised for the last trigger pulse arrived before the
\* interval had elapsed: the iteration that found it returned at line 182
\* and the flag is pending.
C18_Witness ==
  /\ pc = "idle"
  /\ outcome = "throttled"
  /\ newDataReady
  /\ ~conversionPending
  /\ Elapsed < UPDATE_INTERVAL_MS
  /\ okReads >= 1

-----------------------------------------------------------------------------
\* The three advisory strings getWHOGuidance returns.
Advisories == {getWHOGuidance(i) : i \in IndexSamples}

\* C19: for each of the three advisory strings, drawWrappedText(guidance, 0,
\* 12, 128) draws every word whole within the 128-pixel width, on one of two
\* lines (y = 12 and y = 22), so the text lies within the 32-pixel height;
\* the words drawn make up the whole advisory.
C19_AdvisoryFitsDisplay ==
  display.title = "UV Index: " =>
    LET ws == display.words
        Cells[k \in 0..Len(ws)] ==
          IF k = 0 THEN 0 ELSE Cells[k - 1] + ws[k].len
    IN  /\ display.text \in Advisories
        /\ Cardinality(Advisories) = 3
        /\ Len(ws) >= 1
        /\ Cells[Len(ws)] + Len(ws) - 1 = Len(Chars(display.text))
        /\ \A k \in 1..Len(ws) :
             /\ ws[k].len > 0
             /\ ws[k].x >= 0
             /\ ws[k].x + ws[k].len * CHAR_WIDTH <= SCREEN_WIDTH
             /\ ws[k].y \in {TEXT_Y, TEXT_Y + LINE_HEIGHT}
             /\ ws[k].y + LINE_HEIGHT <= SCREEN_HEIGHT
             /\ k > 1 => ws[k].y >= ws[k - 1].y

\* The Moderate advisory on the display: "SPF30+," ends at x = 126 on the
\* first line and "hat," starts the second line.
C19_Witness ==
  /\ display.text = "Moderate: Use SPF30+, hat, sunglasses"
  /\ Len(display.words) = 5
  /\ display.words[3].x + display.words[3].len * CHAR_WIDTH = 126
  /\ display.words[3].y = 12
  /\ display.words[4].x = 0
  /\ display.words[4].y = 22

=============================================================================
